---- MODULE Spec2Model ----
(***************************************************************************)
(* Unified Event Analytics Engine: credential store (Application model,    *)
(* auth routes, authenticateApiKey middleware) and the cached analytics    *)
(* routes (collect, event-summary, user-stats, app-analytics).             *)
(*                                                                         *)
(* SpecAuth : the credential store and the authentication middleware.      *)
(* Spec     : concurrent analytics requests over the event store and the   *)
(*            Redis cache; every await of a handler is one step.           *)
(* SpecGate : the middleware in front of the analytics routes.             *)
(* SpecCount, SpecUsers, SpecDevices, SpecTrend, SpecRealTime,             *)
(* SpecUserStats : the aggregation pipelines over stored events.           *)
(* SpecEnrich, SpecRevoke : enrichment of a collected event; revocation.   *)
(* SpecRecent : the recent events of a user's statistics.                  *)
(* SpecKeys : the cache key derived from the query string of a request.    *)
(* SpecHit, SpecMiss : cache hits and cache misses of the read paths.       *)
(* SpecClass : the device class of a collected event.                      *)
(* SpecAppend : collects and reads of both applications.                   *)
(* SpecSweep : the invalidation sweep of a collect.                        *)
(* SpecTenant : reads of one application next to the events of another.    *)
(* SpecActivity : the app-wide analytics of an application.                 *)
(***************************************************************************)
EXTENDS Integers, Sequences, FiniteSets, TLC

VARIABLES
    applications,   \* Application collection, in insertion (scan) order
    now,            \* wall clock, in years
    authResp,       \* last response of an auth route or of the middleware
    redisClient,    \* config/redis.js module variable
    listening,      \* app.listen() has been called
    store,          \* Event collection, in insertion order
    cache,          \* Redis: key -> [val, ttl]
    reqs,           \* in-flight analytics requests, one record per slot
    acked,          \* ids of the stored events whose collect has answered 201
    lastResp        \* last response of an analytics route

vars == <<applications, now, authResp, redisClient, listening,
          store, cache, reqs, acked, lastResp>>

authVars == <<applications, now, authResp>>
analyticsVars == <<redisClient, listening, store, cache, reqs, acked, lastResp>>

----------------------------------------------------------------------------
(* Bounds *)

MaxApps == 2        \* applications that may be registered
NumKeys == 2        \* distinct values the key generator may produce
MaxNow == 2         \* last clock value (years)

(* Program constants *)

YEAR == 1           \* default expiry: 365 days, the clock counts years

IdPool == <<"a1", "a2", "a3", "a4">>
KeyPool == <<"K1", "K2", "K3", "K4">>
Keys == {KeyPool[i] : i \in 1..NumKeys}
Owners == {"o1", "o2"}
Salts == {"s1", "s2"}
NoKey == ""             \* header absent (or empty): !apiKey is true
BadKey == "invalid-key" \* a value the generator never produces
PresentedKeys == Keys \cup {NoKey, BadKey}

----------------------------------------------------------------------------
(* Application model *)

\* bcrypt.hash(plain, rounds): a salted one-way digest
bcryptHash(plain, salt) == [salt |-> salt, digest |-> <<"bcrypt", salt, plain>>]

\* bcrypt.compare(plain, hash): re-hash with the stored salt
bcryptCompare(plain, hash) == bcryptHash(plain, hash.salt).digest = hash.digest

verifyApiKey(app, apiKey) ==
    IF app.apiKeyHash = <<>> THEN FALSE ELSE bcryptCompare(apiKey, app.apiKeyHash)

isExpired(app) == app.expiresAt < now

RECURSIVE ScanAll(_, _)
\* a scan that forgets the { isActive: true } filter
ScanAll(apiKey, i) ==
    IF i > Len(applications) THEN 0
    ELSE IF verifyApiKey(applications[i], apiKey) /\ ~isExpired(applications[i])
         THEN i
         ELSE ScanAll(apiKey, i + 1)

RECURSIVE ScanNoExpiry(_, _)
\* a scan that forgets the expiry test
ScanNoExpiry(apiKey, i) ==
    IF i > Len(applications) THEN 0
    ELSE IF applications[i].isActive /\ verifyApiKey(applications[i], apiKey)
         THEN i
         ELSE ScanNoExpiry(apiKey, i + 1)

RECURSIVE ScanActive(_, _)
\* the for loop of findByApiKey over find({ isActive: true })
ScanActive(apiKey, i) ==
    IF i > Len(applications) THEN 0
    ELSE IF applications[i].isActive
            /\ verifyApiKey(applications[i], apiKey)
            /\ ~isExpired(applications[i])
         THEN i
         ELSE ScanActive(apiKey, i + 1)

findByApiKey_allRecords(apiKey) == ScanAll(apiKey, 1)

findByApiKey_noExpiry(apiKey) == ScanNoExpiry(apiKey, 1)

\* index of the first matching application, 0 for null
findByApiKey(apiKey) == ScanActive(apiKey, 1)

----------------------------------------------------------------------------
(* authenticateApiKey middleware *)

Resp401(error, message) == [status |-> 401, error |-> error, message |-> message]

AuthOk(i) == [status |-> 0, error |-> "next", message |-> applications[i].id]

\* a middleware that reports an expired key with a message of its own
authenticateApiKey_expiredMessage(apiKey) ==
    IF apiKey = NoKey
    THEN Resp401("Authentication required", "API key is missing")
    ELSE LET i == findByApiKey(apiKey) IN
         IF i = 0
         THEN IF findByApiKey_noExpiry(apiKey) # 0
              THEN Resp401("API key expired", "The provided API key has expired.")
              ELSE Resp401("Invalid API key", "The provided API key is invalid or expired.")
         ELSE IF ~applications[i].isActive
         THEN Resp401("Application inactive", "This application has been deactivated.")
         ELSE AuthOk(i)

authenticateApiKey(apiKey) ==
    IF apiKey = NoKey
    THEN Resp401("Authentication required", "API key is missing")
    ELSE LET i == findByApiKey(apiKey) IN
         IF i = 0
         THEN Resp401("Invalid API key", "The provided API key is invalid or expired.")
         ELSE IF ~applications[i].isActive
         THEN Resp401("Application inactive", "This application has been deactivated.")
         ELSE AuthOk(i)

----------------------------------------------------------------------------
(* Auth routes *)

NoResp == [op |-> "none", status |-> 0, id |-> "", apiKey |-> "", at |-> 0,
           error |-> "", message |-> "", presented |-> ""]

AppIndex(appId, userId, needActive) ==
    LET S == {i \in 1..Len(applications) :
                 /\ applications[i].id = appId
                 /\ applications[i].createdBy = userId
                 /\ (needActive => applications[i].isActive)}
    IN IF S = {} THEN 0 ELSE CHOOSE i \in S : TRUE

\* unique index on apiKey
KeyTaken(apiKey, except) ==
    \E i \in 1..Len(applications) : i # except /\ applications[i].apiKey = apiKey

\* POST /register: generateApiKey, new Application(...).save()
Register(createdBy, apiKey, salt) ==
    /\ Len(applications) < MaxApps
    /\ IF KeyTaken(apiKey, 0)
       THEN /\ authResp' = [NoResp EXCEPT !.op = "register", !.status = 500,
                                          !.error = "Registration failed", !.at = now]
            /\ UNCHANGED applications
       ELSE LET id == IdPool[Len(applications) + 1]
                app == [id |-> id, createdBy |-> createdBy, apiKey |-> apiKey,
                        apiKeyHash |-> bcryptHash(apiKey, salt),
                        isActive |-> TRUE, expiresAt |-> now + YEAR]
            IN /\ applications' = Append(applications, app)
               /\ authResp' = [NoResp EXCEPT !.op = "register", !.status = 201,
                                   !.id = id, !.apiKey = apiKey, !.at = now]
    /\ UNCHANGED <<now, analyticsVars>>

\* GET /api-key
GetApiKey(appId, userId) ==
    /\ LET i == AppIndex(appId, userId, TRUE) IN
       IF i = 0
       THEN authResp' = [NoResp EXCEPT !.op = "getApiKey", !.status = 404,
                                       !.error = "Application not found", !.at = now]
       ELSE authResp' = [NoResp EXCEPT !.op = "getApiKey", !.status = 200,
                             !.id = applications[i].id,
                             !.apiKey = applications[i].apiKey, !.at = now]
    /\ UNCHANGED <<applications, now, analyticsVars>>

\* a string that is no ObjectId: casting it for a query on _id throws CastError
MalformedId == "not-an-object-id"

\* the ids the collection hands out are ObjectIds, no other string of the model is
IsObjectId(id) == \E n \in DOMAIN IdPool : id = IdPool[n]

\* POST /revoke: findOneAndUpdate({_id, createdBy}, {isActive: false});
\* the catch block of the route answers 500 when the query throws
Revoke(appId, userId) ==
    /\ LET i == AppIndex(appId, userId, FALSE) IN
       IF ~IsObjectId(appId)
       THEN /\ authResp' = [NoResp EXCEPT !.op = "revoke", !.status = 500,
                                          !.error = "Failed to revoke API key", !.at = now]
            /\ UNCHANGED applications
       ELSE IF i = 0
       THEN /\ authResp' = [NoResp EXCEPT !.op = "revoke", !.status = 404,
                                          !.error = "Application not found", !.at = now]
            /\ UNCHANGED applications
       ELSE /\ applications' = [applications EXCEPT ![i].isActive = FALSE]
            /\ authResp' = [NoResp EXCEPT !.op = "revoke", !.status = 200,
                                          !.id = applications[i].id, !.at = now]
    /\ UNCHANGED <<now, analyticsVars>>

\* a regeneration whose save does not re-hash the key
Regenerate_keepHash(appId, userId, newApiKey, salt) ==
    /\ LET i == AppIndex(appId, userId, FALSE) IN
       IF i = 0
       THEN /\ authResp' = [NoResp EXCEPT !.op = "regenerate", !.status = 404,
                                          !.error = "Application not found", !.at = now]
            /\ UNCHANGED applications
       ELSE IF KeyTaken(newApiKey, i)
       THEN /\ authResp' = [NoResp EXCEPT !.op = "regenerate", !.status = 400,
                                          !.error = "Duplicate Field", !.at = now]
            /\ UNCHANGED applications
       ELSE /\ applications' =
                 [applications EXCEPT
                    ![i].apiKey = newApiKey,
                    ![i].isActive = TRUE,
                    ![i].expiresAt = now + YEAR]
            /\ authResp' = [NoResp EXCEPT !.op = "regenerate", !.status = 200,
                                !.id = applications[i].id, !.apiKey = newApiKey,
                                !.at = now]
    /\ UNCHANGED <<now, analyticsVars>>

\* AuthController.regenerateApiKey
Regenerate(appId, userId, newApiKey, salt) ==
    /\ LET i == AppIndex(appId, userId, FALSE) IN
       IF i = 0
       THEN /\ authResp' = [NoResp EXCEPT !.op = "regenerate", !.status = 404,
                                          !.error = "Application not found", !.at = now]
            /\ UNCHANGED applications
       ELSE IF KeyTaken(newApiKey, i)
       THEN /\ authResp' = [NoResp EXCEPT !.op = "regenerate", !.status = 400,
                                          !.error = "Duplicate Field", !.at = now]
            /\ UNCHANGED applications
       ELSE /\ applications' =
                 [applications EXCEPT
                    ![i].apiKey = newApiKey,
                    \* pre('save'): re-hash only when apiKey is modified
                    ![i].apiKeyHash = IF newApiKey # applications[i].apiKey
                                      THEN bcryptHash(newApiKey, salt)
                                      ELSE applications[i].apiKeyHash,
                    ![i].isActive = TRUE,
                    ![i].expiresAt = now + YEAR]
            /\ authResp' = [NoResp EXCEPT !.op = "regenerate", !.status = 200,
                                !.id = applications[i].id, !.apiKey = newApiKey,
                                !.at = now]
    /\ UNCHANGED <<now, analyticsVars>>

\* a request through the middleware alone
Authenticate(apiKey) ==
    /\ LET r == authenticateApiKey(apiKey) IN
       authResp' = [NoResp EXCEPT !.op = "authenticate", !.status = r.status,
                        !.error = r.error, !.message = r.message,
                        !.presented = apiKey, !.at = now,
                        !.id = IF r.status = 0 THEN r.message ELSE ""]
    /\ UNCHANGED <<applications, now, analyticsVars>>

Tick ==
    /\ now < MaxNow
    /\ now' = now + 1
    /\ UNCHANGED <<applications, authResp, analyticsVars>>

----------------------------------------------------------------------------
(* Analytics routes: bounds and inputs *)

MaxReq == 2         \* request slots (requests in flight at once)
MaxEvents == 2      \* collects accepted over a run

Slots == 1..MaxReq
EventNames == {"click"}
UserIds == {"u1"}
SessionIds == {""}
Devices == {""}                 \* "" : the caller sent no device
UaCategories == {"desktop"}     \* deviceCategory the user-agent parser reports
NoDate == 0                     \* startDate / endDate absent (falsy)
Dates == {NoDate}
AnalyticsKeys == {"K1", "K2"}
ReadKinds == {"event-summary", "user-stats", "app-analytics"}

\* config/redis.js getRedisClient: throws when the client was never created
getRedisClient == IF redisClient = "undefined" THEN "throw" ELSE "client"

----------------------------------------------------------------------------
(* Event model *)

\* a collect whose enrichment asks the user agent before the caller
eventData_agentFirst(appId, event, userId, sessionId, device, uaCategory) ==
    [appId |-> appId, event |-> event, userId |-> userId, sessionId |-> sessionId,
     device |-> IF uaCategory = "mobile" THEN "mobile"
                ELSE IF uaCategory = "tablet" THEN "tablet"
                ELSE IF device # "" THEN device ELSE "desktop",
     timestamp |-> now]

\* enrichment of the collect handler
eventData(appId, event, userId, sessionId, device, uaCategory) ==
    [appId |-> appId, event |-> event, userId |-> userId, sessionId |-> sessionId,
     device |-> IF device # "" THEN device
                ELSE IF uaCategory = "mobile" THEN "mobile"
                ELSE IF uaCategory = "tablet" THEN "tablet" ELSE "desktop",
     timestamp |-> now]

NoEvent == [appId |-> "", event |-> "", userId |-> "", sessionId |-> "",
            device |-> "", timestamp |-> 0]

\* the enum of eventSchema.device and of the validator of the collect route
DeviceClasses == {"mobile", "desktop", "tablet"}

\* body('device').optional().isIn([...]): an absent device passes
ValidDevice(device) == device = "" \/ device \in DeviceClasses

\* timestamps count minutes; a date "YYYY-MM-DD" is the number of its day
HOUR == 60
DAY == 24 * HOUR

\* new Date(startDate): midnight UTC of that day
StartOfDay(date) == date * DAY

\* new Date(endDate + 'T23:59:59.999Z'): the last instant of that day
EndOfDay(date) == date * DAY + DAY - 1

\* matchStage.timestamp of getEventSummary
InDateRange(ts, startDate, endDate) ==
    /\ startDate # NoDate => ts >= StartOfDay(startDate)
    /\ endDate # NoDate => ts <= EndOfDay(endDate)

\* mongoose leaves an undefined path unset; "" stands for the unset field
Missing == ""

\* $addToSet: a missing field adds nothing
AddToSet(values) == values \ {Missing}

\* a summary whose $match forgets the event name
getEventSummary_anyEvent(st, appId, event, startDate, endDate) ==
    LET M == {i \in 1..Len(st) : st[i].appId = appId}
        dev(d) == Cardinality({i \in M : st[i].device = d})
    IN IF M = {} THEN <<>>
       ELSE << [event |-> event,
                count |-> Cardinality(M),
                uniqueUsers |-> Cardinality(AddToSet({st[i].userId : i \in M})),
                deviceData |-> [mobile |-> dev("mobile"), desktop |-> dev("desktop"),
                                tablet |-> dev("tablet")]] >>

\* a summary that counts the events without a userId as one more user
getEventSummary_missingIsUser(st, appId, event, startDate, endDate) ==
    LET M == {i \in 1..Len(st) : st[i].appId = appId /\ st[i].event = event}
        dev(d) == Cardinality({i \in M : st[i].device = d})
    IN IF M = {} THEN <<>>
       ELSE << [event |-> event,
                count |-> Cardinality(M),
                uniqueUsers |-> Cardinality({st[i].userId : i \in M}),
                deviceData |-> [mobile |-> dev("mobile"), desktop |-> dev("desktop"),
                                tablet |-> dev("tablet")]] >>

\* a summary that files tablet events under mobile
getEventSummary_tabletAsMobile(st, appId, event, startDate, endDate) ==
    LET M == {i \in 1..Len(st) : st[i].appId = appId /\ st[i].event = event}
        dev(d) == Cardinality({i \in M : st[i].device = d})
    IN IF M = {} THEN <<>>
       ELSE << [event |-> event,
                count |-> Cardinality(M),
                uniqueUsers |-> Cardinality(AddToSet({st[i].userId : i \in M})),
                deviceData |-> [mobile |-> dev("mobile") + dev("tablet"),
                                desktop |-> dev("desktop"), tablet |-> 0]] >>

\* Event.getEventSummary: $match, $group by event, $project
getEventSummary(st, appId, event, startDate, endDate) ==
    LET M == {i \in 1..Len(st) : /\ st[i].appId = appId
                                 /\ st[i].event = event
                                 /\ InDateRange(st[i].timestamp, startDate, endDate)}
        dev(d) == Cardinality({i \in M : st[i].device = d})
    IN IF M = {} THEN <<>>
       ELSE << [event |-> event,
                count |-> Cardinality(M),
                uniqueUsers |-> Cardinality(AddToSet({st[i].userId : i \in M})),
                deviceData |-> [mobile |-> dev("mobile"), desktop |-> dev("desktop"),
                                tablet |-> dev("tablet")]] >>

\* the result of the event-summary route: summary[0] || { count: 0, ... }
EventSummaryResult(st, appId, event, startDate, endDate) ==
    LET summary == getEventSummary(st, appId, event, startDate, endDate) IN
    IF Len(summary) > 0 THEN summary[1]
    ELSE [event |-> event, count |-> 0, uniqueUsers |-> 0,
          deviceData |-> [mobile |-> 0, desktop |-> 0, tablet |-> 0]]

\* the aggregate of the user-stats route
UserStatsResult(st, appId, userId) ==
    LET M == {i \in 1..Len(st) : st[i].appId = appId /\ st[i].userId = userId} IN
    [userId |-> userId, totalEvents |-> Cardinality(M)]

\* the totals facet of getAppAnalytics
AppAnalyticsResult(st, appId, startDate, endDate) ==
    LET M == {i \in 1..Len(st) : st[i].appId = appId} IN
    [totals |-> [totalEvents |-> Cardinality(M)]]

Compute(kind, st, appId, q) ==
    IF kind = "event-summary"
    THEN EventSummaryResult(st, appId, q.event, q.startDate, q.endDate)
    ELSE IF kind = "user-stats"
    THEN UserStatsResult(st, appId, q.userId)
    ELSE AppAnalyticsResult(st, appId, q.startDate, q.endDate)

----------------------------------------------------------------------------
(* Cache layer *)

\* `${startDate || ''}`: an absent date leaves its place empty
DateString(date) == IF date = NoDate THEN "" ELSE ToString(date)

\* the template strings of the three read paths
cacheKey(kind, appId, q) ==
    IF kind = "event-summary"
    THEN "event-summary:" \o appId \o ":" \o q.event \o ":" \o DateString(q.startDate)
             \o ":" \o DateString(q.endDate)
    ELSE IF kind = "user-stats"
    THEN "user-stats:" \o appId \o ":" \o q.userId
    ELSE "app-analytics:" \o appId \o ":" \o DateString(q.startDate)
             \o ":" \o DateString(q.endDate)

CACHE_TTL_EVENTS == 300
CACHE_TTL_STATS == 120
CACHE_TTL_APP == 600

\* one expiry for every stat kind
ttlOf_sameForAll(kind) == CACHE_TTL_EVENTS

\* parseInt(process.env.CACHE_TTL_...) || default, default configuration
ttlOf(kind) ==
    IF kind = "event-summary" THEN CACHE_TTL_EVENTS
    ELSE IF kind = "user-stats" THEN CACHE_TTL_STATS ELSE CACHE_TTL_APP

JSONstringify(v) == [json |-> v]
JSONparse(str) == str.json

\* `${userId || sessionId}`
UserOrSession(userId, sessionId) ==
    IF userId # "" THEN userId ELSE IF sessionId # "" THEN sessionId ELSE "undefined"

\* the three glob patterns of the collect handler
cachePatterns(appId, userId, sessionId) ==
    << "event-summary:" \o appId \o ":*",
       "user-stats:" \o UserOrSession(userId, sessionId) \o ":*",
       "analytics:" \o appId \o ":*" >>

\* a string without its first character
Rest(str) == SubSeq(str, 2, Len(str))

RECURSIVE GlobMatch(_, _)
\* Redis glob matching: * stands for any run of characters, every other
\* character for itself
GlobMatch(pattern, str) ==
    IF pattern = "" THEN str = ""
    ELSE IF SubSeq(pattern, 1, 1) = "*"
    THEN GlobMatch(Rest(pattern), str) \/ (str # "" /\ GlobMatch(pattern, Rest(str)))
    ELSE /\ str # ""
         /\ SubSeq(pattern, 1, 1) = SubSeq(str, 1, 1)
         /\ GlobMatch(Rest(pattern), Rest(str))

\* KEYS pattern: does the key match
KeyMatches(pattern, key) == GlobMatch(pattern, key)

\* redisClient.keys(pattern)
redisKeys(pattern) == {e.key : e \in {x \in cache : KeyMatches(pattern, x.key)}}

\* redisClient.get(key): the stored string, "" for nil
redisGet(key) ==
    LET S == {e \in cache : e.key = key} IN
    IF S = {} THEN [json |-> "nil"] ELSE (CHOOSE e \in S : TRUE).val

redisHas(key) == \E e \in cache : e.key = key

\* redisClient.setEx(key, ttl, value)
redisSetEx(key, ttl, value) ==
    {e \in cache : e.key # key} \cup {[key |-> key, val |-> value, ttl |-> ttl]}

\* redisClient.del(keys)
redisDel(keys) == {e \in cache : e.key \notin keys}

----------------------------------------------------------------------------
(* Request slots and responses *)

\* the events a query of the given kind counts
MatchesQuery(kind, ev, appId, q) ==
    /\ ev.appId = appId
    /\ kind = "event-summary" => ev.event = q.event
    /\ kind = "user-stats" => ev.userId = q.userId

\* how many of them have been acknowledged to their sender with a 201
AckedCount(kind, appId, q) ==
    Cardinality({i \in acked : MatchesQuery(kind, store[i], appId, q)})

\* the event count a response body reports
CountOf(kind, body) ==
    IF kind = "event-summary" THEN body.count
    ELSE IF kind = "user-stats" THEN body.totalEvents
    ELSE body.totals.totalEvents

NoQuery == [event |-> "", userId |-> "", startDate |-> NoDate, endDate |-> NoDate]

IdleReq == [pc |-> "idle", kind |-> "", appId |-> "", key |-> "", ev |-> NoEvent,
            q |-> NoQuery, pat |-> 0, found |-> {}, body |-> [none |-> 0],
            mustSee |-> 0, faults |-> 0, eventId |-> 0, storeFailed |-> FALSE]

NoAResp == [kind |-> "none", status |-> 0, appId |-> "", q |-> NoQuery,
            body |-> [none |-> 0], mustSee |-> 0, fromCache |-> FALSE,
            faults |-> 0, storeFailed |-> FALSE, eventId |-> 0, error |-> ""]

AllIdle == \A r \in Slots : reqs[r].pc = "idle"

\* a step that sends no response
Silent == lastResp' = NoAResp

Respond(r, resp) ==
    /\ reqs' = [reqs EXCEPT ![r] = IdleReq]
    /\ lastResp' = resp

RespOf(r, status) ==
    [NoAResp EXCEPT !.kind = reqs[r].kind, !.status = status, !.appId = reqs[r].appId,
                    !.q = reqs[r].q, !.mustSee = reqs[r].mustSee,
                    !.faults = reqs[r].faults, !.storeFailed = reqs[r].storeFailed,
                    !.eventId = reqs[r].eventId]

\* the 401 of the middleware in front of every analytics route
Rejected(kind, a) ==
    [NoAResp EXCEPT !.kind = kind, !.status = a.status, !.error = a.error]

\* what the catch blocks of the handlers do with an error
AfterSweepError_rethrow == "throw"
AfterSweepError == "continue"       \* collect: logger.warn, next pattern
AfterCacheError_rethrow == "throw"
AfterCacheError == "continue"       \* read routes: logger.warn, go on
AfterSaveError_swallow == "continue"
AfterSaveError == "throw"           \* collect: outer catch, 500

----------------------------------------------------------------------------
(* initializeApp: connectDB, connectRedis, then app.listen *)

InitializeApp ==
    /\ ~listening
    /\ redisClient' = "client"
    /\ listening' = TRUE
    /\ Silent
    /\ UNCHANGED <<authVars, store, cache, reqs, acked>>

----------------------------------------------------------------------------
(* POST /collect *)

CollectsInFlight == Cardinality({r \in Slots : reqs[r].kind = "collect" /\ reqs[r].pc = "save"})

StartCollect(r, apiKey, event, userId, sessionId, device, uaCategory) ==
    /\ listening
    /\ reqs[r].pc = "idle"
    /\ Len(store) + CollectsInFlight < MaxEvents
    /\ LET a == authenticateApiKey(apiKey) IN
       IF a.status # 0
       THEN /\ lastResp' = Rejected("collect", a)
            /\ UNCHANGED reqs
       ELSE IF ~ValidDevice(device)
       THEN /\ lastResp' = [NoAResp EXCEPT !.kind = "collect", !.status = 400,
                                           !.error = "Validation failed"]
            /\ UNCHANGED reqs
       ELSE /\ reqs' = [reqs EXCEPT ![r] = [IdleReq EXCEPT
                         !.pc = "save", !.kind = "collect", !.appId = a.message,
                         !.ev = eventData(a.message, event, userId, sessionId,
                                          device, uaCategory)]]
            /\ Silent
    /\ UNCHANGED <<authVars, redisClient, listening, store, cache, acked>>

\* leave pattern reqs[r].pat behind: next pattern, or 201 after the last one
SweepAdvance(r, faults, cache2) ==
    /\ cache' = cache2
    /\ IF reqs[r].pat < 3
       THEN /\ reqs' = [reqs EXCEPT ![r].pc = "keys", ![r].pat = @ + 1,
                                    ![r].found = {}, ![r].faults = faults]
            /\ Silent
            /\ UNCHANGED acked
       ELSE /\ Respond(r, [RespOf(r, 201) EXCEPT !.faults = faults])
            /\ acked' = acked \cup ({reqs[r].eventId} \ {0})

SweepThrow(r) ==
    /\ Respond(r, [RespOf(r, 500) EXCEPT !.faults = reqs[r].faults + 1,
                                         !.error = "Failed to collect event"])
    /\ UNCHANGED <<cache, acked>>

\* a save that overwrites the latest stored event instead of inserting
CollectSave_overwrite(r, ok) ==
    /\ reqs[r].pc = "save"
    /\ IF ok
       THEN /\ store' = IF Len(store) = 0 THEN <<reqs[r].ev>>
                        ELSE [store EXCEPT ![Len(store)] = reqs[r].ev]
            /\ reqs' = [reqs EXCEPT ![r].pc = "keys", ![r].pat = 1, ![r].eventId = 1]
            /\ Silent
            /\ UNCHANGED <<cache, acked>>
       ELSE /\ Respond(r, [RespOf(r, 500) EXCEPT !.storeFailed = TRUE,
                                                 !.error = "Failed to collect event"])
            /\ UNCHANGED <<store, cache, acked>>
    /\ UNCHANGED <<authVars, redisClient, listening>>

\* await analyticsEvent.save(), then getRedisClient()
CollectSave(r, ok) ==
    /\ reqs[r].pc = "save"
    /\ IF ok
       THEN /\ store' = Append(store, reqs[r].ev)
            /\ IF getRedisClient = "throw"
               THEN Respond(r, [RespOf(r, 500) EXCEPT !.eventId = Len(store) + 1,
                                                      !.error = "Failed to collect event"])
               ELSE /\ reqs' = [reqs EXCEPT ![r].pc = "keys", ![r].pat = 1,
                                            ![r].eventId = Len(store) + 1]
                    /\ Silent
            /\ UNCHANGED <<cache, acked>>
       ELSE IF AfterSaveError = "throw"
       THEN /\ Respond(r, [RespOf(r, 500) EXCEPT !.storeFailed = TRUE,
                                                 !.error = "Failed to collect event"])
            /\ UNCHANGED <<store, cache, acked>>
       ELSE /\ reqs' = [reqs EXCEPT ![r].pc = "keys", ![r].pat = 1,
                                    ![r].storeFailed = TRUE]
            /\ Silent
            /\ UNCHANGED <<store, cache, acked>>
    /\ UNCHANGED <<authVars, redisClient, listening>>

\* await redisClient.keys(pattern)
CollectKeys(r, ok) ==
    /\ reqs[r].pc = "keys"
    /\ LET pattern == cachePatterns(reqs[r].appId, reqs[r].ev.userId,
                                    reqs[r].ev.sessionId)[reqs[r].pat]
           keys == redisKeys(pattern)
       IN IF ok
          THEN IF keys # {}
               THEN /\ reqs' = [reqs EXCEPT ![r].pc = "del", ![r].found = keys]
                    /\ Silent
                    /\ UNCHANGED <<cache, acked>>
               ELSE SweepAdvance(r, reqs[r].faults, cache)
          ELSE IF AfterSweepError = "continue"
               THEN SweepAdvance(r, reqs[r].faults + 1, cache)
               ELSE SweepThrow(r)
    /\ UNCHANGED <<authVars, redisClient, listening, store>>

\* await redisClient.del(keys)
CollectDel(r, ok) ==
    /\ reqs[r].pc = "del"
    /\ IF ok
       THEN SweepAdvance(r, reqs[r].faults, redisDel(reqs[r].found))
       ELSE IF AfterSweepError = "continue"
            THEN SweepAdvance(r, reqs[r].faults + 1, cache)
            ELSE SweepThrow(r)
    /\ UNCHANGED <<authVars, redisClient, listening, store>>

----------------------------------------------------------------------------
(* GET /event-summary, GET /user-stats, getAppAnalytics *)

StartRead(r, apiKey, kind, app_id, q) ==
    /\ listening
    /\ reqs[r].pc = "idle"
    /\ LET a == authenticateApiKey(apiKey) IN
       IF a.status # 0
       THEN /\ lastResp' = Rejected(kind, a)
            /\ UNCHANGED reqs
       ELSE LET appId == IF kind = "event-summary" /\ app_id # "" THEN app_id
                         ELSE a.message
            IN IF getRedisClient = "throw"
               THEN /\ lastResp' = [NoAResp EXCEPT !.kind = kind, !.status = 500,
                                                   !.appId = appId, !.q = q]
                    /\ UNCHANGED reqs
               ELSE /\ reqs' = [reqs EXCEPT ![r] = [IdleReq EXCEPT
                                 !.pc = "get", !.kind = kind, !.appId = appId,
                                 !.q = q, !.key = cacheKey(kind, appId, q),
                                 !.mustSee = AckedCount(kind, appId, q)]]
                    /\ Silent
    /\ UNCHANGED <<authVars, redisClient, listening, store, cache, acked>>

\* await redisClient.get(cacheKey)
ReadCacheGet(r, ok) ==
    /\ reqs[r].pc = "get"
    /\ IF ok
       THEN IF redisHas(reqs[r].key)
            THEN LET cached == JSONparse(redisGet(reqs[r].key)) IN
                 Respond(r, [RespOf(r, 200) EXCEPT !.body = cached, !.fromCache = TRUE])
            ELSE /\ reqs' = [reqs EXCEPT ![r].pc = "query"]
                 /\ Silent
       ELSE IF AfterCacheError = "continue"
            THEN /\ reqs' = [reqs EXCEPT ![r].pc = "query", ![r].faults = @ + 1]
                 /\ Silent
            ELSE Respond(r, [RespOf(r, 500) EXCEPT !.faults = reqs[r].faults + 1])
    /\ UNCHANGED <<authVars, redisClient, listening, store, cache, acked>>

\* await Event.getEventSummary(...) / Event.aggregate([...]); the $match is
\* built with new mongoose.Types.ObjectId(appId), which throws on a string
\* that is no ObjectId: the catch block answers 500 as for a failed query
ReadQuery(r, ok) ==
    /\ reqs[r].pc = "query"
    /\ IF ok /\ IsObjectId(reqs[r].appId)
       THEN /\ reqs' = [reqs EXCEPT ![r].pc = "set",
                           ![r].body = Compute(reqs[r].kind, store, reqs[r].appId, reqs[r].q)]
            /\ Silent
       ELSE Respond(r, [RespOf(r, 500) EXCEPT !.storeFailed = TRUE])
    /\ UNCHANGED <<authVars, redisClient, listening, store, cache, acked>>

\* await redisClient.setEx(cacheKey, ttl, JSON.stringify(result)); res.json(result)
ReadCacheSet(r, ok) ==
    /\ reqs[r].pc = "set"
    /\ LET resp == [RespOf(r, 200) EXCEPT !.body = reqs[r].body]
       IN IF ok
          THEN /\ cache' = redisSetEx(reqs[r].key, ttlOf(reqs[r].kind),
                              JSONstringify(reqs[r].body))
               /\ Respond(r, resp)
          ELSE /\ UNCHANGED cache
               /\ IF AfterCacheError = "continue"
                  THEN Respond(r, [resp EXCEPT !.faults = reqs[r].faults + 1])
                  ELSE Respond(r, [RespOf(r, 500) EXCEPT !.faults = reqs[r].faults + 1])
    /\ UNCHANGED <<authVars, redisClient, listening, store, acked>>

\* Redis drops an entry whose TTL has run out
Expire(key) ==
    /\ redisHas(key)
    /\ cache' = redisDel({key})
    /\ Silent
    /\ UNCHANGED <<authVars, redisClient, listening, store, reqs, acked>>

----------------------------------------------------------------------------
(* authenticateApiKey in front of the analytics routes: the catch block *)

\* res.status(500) of the catch block of the middleware
AuthenticationFailed ==
    [status |-> 500, error |-> "Authentication failed",
     message |-> "Internal server error during authentication"]

GatedKinds == {"collect", "event-summary", "user-stats"}

\* a request whose Application.findByApiKey rejects (the store is unreachable):
\* the missing-key test has passed, the catch block answers, next() is not called
AuthLookupFails(kind, apiKey) ==
    /\ listening
    /\ apiKey # NoKey
    /\ lastResp' = Rejected(kind, AuthenticationFailed)
    /\ UNCHANGED <<authVars, redisClient, listening, store, cache, reqs, acked>>

----------------------------------------------------------------------------
(* The Event model and the aggregation pipelines, called directly *)

MaxStored == 5      \* events saved over a run of an aggregation specification

\* new Event(eventData).save() with a caller-supplied timestamp
EventSave(appId, event, userId, device, timestamp) ==
    /\ Len(store) < MaxStored
    /\ store' = Append(store, [eventData(appId, event, userId, Missing, device, "desktop")
                                 EXCEPT !.timestamp = timestamp])
    /\ Silent
    /\ UNCHANGED <<authVars, redisClient, listening, cache, reqs, acked>>

\* Event.getEventSummary(...) and summary[0] || { count: 0, ... }
SummarizeByEvent(appId, event, startDate, endDate) ==
    /\ lastResp' = [NoAResp EXCEPT
                      !.kind = "event-summary", !.status = 200, !.appId = appId,
                      !.q = [NoQuery EXCEPT !.event = event, !.startDate = startDate,
                                            !.endDate = endDate],
                      !.body = EventSummaryResult(store, appId, event, startDate, endDate)]
    /\ UNCHANGED <<authVars, redisClient, listening, store, cache, reqs, acked>>

MaxRecent == 11     \* events saved over a run of the recent-events specification

\* new Event(eventData).save() of a desktop click, as often as MaxRecent times
EventSaveRecent(appId, userId, timestamp) ==
    /\ Len(store) < MaxRecent
    /\ store' = Append(store, [eventData(appId, "click", userId, Missing, "desktop", "desktop")
                                 EXCEPT !.timestamp = timestamp])
    /\ Silent
    /\ UNCHANGED <<authVars, redisClient, listening, cache, reqs, acked>>

----------------------------------------------------------------------------
(* Enrichment: the metadata of eventData *)

MaxEnriched == 1    \* events collected over a run of the enrichment specification

\* a || b for strings: an absent or empty a yields b
OrElse(a, b) == IF a # Missing THEN a ELSE b

\* eventData.metadata, from the caller's metadata, the parsed user agent and
\* the geoip lookup (language, timezone and platform are derived the same
\* way as country: from the request and the server, never from the caller)
metadataOf(metadata, userAgentData, geo) ==
    [browser |-> OrElse(userAgentData.browser, metadata.browser),
     os |-> OrElse(userAgentData.os, metadata.os),
     screenSize |-> metadata.screenSize,
     country |-> geo.country]

CallerMetadata ==
    [browser : {Missing, "Firefox"}, os : {Missing, "Linux"},
     screenSize : {Missing, "800x600"}, country : {Missing, "FR"}]

ParsedAgents == [browser : {Missing, "Chrome"}, os : {Missing, "Windows"}]

GeoResults == [country : {Missing, "US"}]

\* POST /collect of application a1 when neither the store nor the cache
\* fails: the stored document with its metadata, then the 201
CollectEnriched(metadata, userAgentData, geo) ==
    /\ Len(store) < MaxEnriched
    /\ store' = Append(store,
                       eventData("a1", "click", "u1", Missing, Missing, "desktop")
                           @@ [metadata |-> metadataOf(metadata, userAgentData, geo)])
    /\ lastResp' = [NoAResp EXCEPT
                      !.kind = "collect", !.status = 201, !.appId = "a1",
                      !.eventId = Len(store) + 1,
                      !.body = [metadata |-> metadata, userAgentData |-> userAgentData]]
    /\ UNCHANGED <<authVars, redisClient, listening, cache, reqs, acked>>

----------------------------------------------------------------------------
(* The query string of a read request and the cache key derived from it *)

\* req.query of a request that carries no parameter
NoParams == [event |-> Missing, userId |-> Missing, startDate |-> NoDate,
             endDate |-> NoDate, app_id |-> Missing]

\* a query parser that takes the values by position: the first presented
\* value as event, the second as startDate, and so on
reqQuery_positional(presented) ==
    LET at(n, absent) == IF n <= Len(presented) THEN presented[n][2] ELSE absent IN
    [event |-> ToString(at(1, Missing)), userId |-> ToString(at(1, Missing)),
     startDate |-> IF Len(presented) >= 2 /\ presented[2][1] \in {"startDate", "endDate"}
                   THEN presented[2][2] ELSE NoDate,
     endDate |-> IF Len(presented) >= 3 /\ presented[3][1] \in {"startDate", "endDate"}
                 THEN presented[3][2] ELSE NoDate,
     app_id |-> Missing]

RECURSIVE reqQuery(_)
\* req.query: the query string "n1=v1&n2=v2..." parsed into an object, one
\* property per presented name
reqQuery(presented) ==
    IF presented = <<>> THEN NoParams
    ELSE LET last == presented[Len(presented)] IN
         [reqQuery(SubSeq(presented, 1, Len(presented) - 1)) EXCEPT ![last[1]] = last[2]]

\* the parameter each route validates with notEmpty()
RequiredParam(kind) ==
    IF kind = "event-summary" THEN {"event"}
    ELSE IF kind = "user-stats" THEN {"userId"} ELSE {}

\* const { ... } = req.query; const appId = ...; const cacheKey = `...`
\* of a read request that has passed the middleware and the validators
DeriveCacheKey(kind, apiKey, presented) ==
    /\ authenticateApiKey(apiKey).status = 0
    /\ RequiredParam(kind) \subseteq {presented[n][1] : n \in 1..Len(presented)}
    /\ LET query == reqQuery(presented)
           appId == IF kind = "event-summary"
                    THEN OrElse(query.app_id, authenticateApiKey(apiKey).message)
                    ELSE authenticateApiKey(apiKey).message
       IN lastResp' = [NoAResp EXCEPT
                         !.kind = "cacheKey", !.appId = appId,
                         !.q = [f \in DOMAIN NoQuery |-> query[f]],
                         !.body = [kind |-> kind, presented |-> presented,
                                   cacheKey |-> cacheKey(kind, appId, query)]]
    /\ UNCHANGED <<authVars, redisClient, listening, store, cache, reqs, acked>>

----------------------------------------------------------------------------
(* AnalyticsController.getRealTimeAnalytics *)

\* { $minute: '$timestamp' }: the minute of the hour, 0..59
MinuteOf(timestamp) == timestamp % HOUR

RECURSIVE SortMinuteDescending(_)
\* { $sort: { minute: -1 } } over buckets with distinct minutes
SortMinuteDescending(buckets) ==
    IF buckets = {} THEN <<>>
    ELSE LET top == CHOOSE b \in buckets : \A c \in buckets : c.minute <= b.minute
         IN <<top>> \o SortMinuteDescending(buckets \ {top})

\* Array.prototype.reverse
Reverse(seq) == [i \in 1..Len(seq) |-> seq[Len(seq) + 1 - i]]

\* { $limit: 60 }
Limit(seq, n) == SubSeq(seq, 1, IF Len(seq) < n THEN Len(seq) ELSE n)

\* the pipeline of getRealTimeAnalytics and the result built from it
RealTimeResult(st, appId, dateNow) ==
    LET oneHourAgo == dateNow - HOUR
        M == {i \in 1..Len(st) : st[i].appId = appId /\ st[i].timestamp >= oneHourAgo}
        inMinute(m) == {i \in M : MinuteOf(st[i].timestamp) = m}
        bucket(m) ==
            [minute |-> m,
             totalEvents |-> Cardinality(inMinute(m)),
             events |-> {[event |-> e,
                          count |-> Cardinality({i \in inMinute(m) : st[i].event = e})] :
                            e \in {st[i].event : i \in inMinute(m)}}]
        realTimeData ==
            Limit(SortMinuteDescending({bucket(MinuteOf(st[i].timestamp)) : i \in M}), HOUR)
    IN [timeframe |-> "last_hour", startTime |-> oneHourAgo, endTime |-> dateNow,
        data |-> Reverse(realTimeData)]

\* a call of getRealTimeAnalytics at clock reading dateNow
GetRealTimeAnalytics(appId, dateNow) ==
    /\ lastResp' = [NoAResp EXCEPT !.kind = "real-time", !.status = 200, !.appId = appId,
                                   !.body = RealTimeResult(store, appId, dateNow)]
    /\ UNCHANGED <<authVars, redisClient, listening, store, cache, reqs, acked>>

----------------------------------------------------------------------------
(* AnalyticsController.getUserStats *)

\* the documents $match keeps
EventsOfUser(st, appId, userId) ==
    {i \in 1..Len(st) : st[i].appId = appId /\ st[i].userId = userId}

RECURSIVE SortTimestampDescending(_, _)
\* { $sort: { timestamp: -1 } } over the documents M of st; documents with
\* equal timestamps follow in the order of their insertion
SortTimestampDescending(st, M) ==
    IF M = {} THEN <<>>
    ELSE LET top == CHOOSE i \in M : \A j \in M :
                        \/ st[j].timestamp < st[i].timestamp
                        \/ (st[j].timestamp = st[i].timestamp /\ i <= j)
         IN <<top>> \o SortTimestampDescending(st, M \ {top})

\* the document $push adds to recentEvents
RecentEvent(ev) == [event |-> ev.event, timestamp |-> ev.timestamp, device |-> ev.device]

\* statistics whose pipeline has no $sort stage: recentEvents in insertion order
UserStatsOf_unsorted(st, appId, userId, first) ==
    LET M == EventsOfUser(st, appId, userId)
        inserted == SelectSeq([i \in 1..Len(st) |-> i], LAMBDA i : i \in M)
    IN IF M = {}
       THEN [userId |-> userId, totalEvents |-> 0, mostUsedDevice |-> "null",
             recentEvents |-> <<>>]
       ELSE [userId |-> userId, totalEvents |-> Cardinality(M),
             mostUsedDevice |-> st[first].device,
             recentEvents |-> Limit([k \in 1..Len(inserted) |-> RecentEvent(st[inserted[k]])], 10)]

\* the pipeline and userStats[0] || { ... }.  mostUsedDevice pushes one
\* { device, count: 1 } per document, sorts them by count and keeps the first:
\* every count is 1, $sortArray leaves the order of equal keys open, so the
\* element that ends up first is any one of them, the document `first`.
\* recentEvents pushes the sorted documents and $slice keeps the first 10
UserStatsOf(st, appId, userId, first) ==
    LET M == EventsOfUser(st, appId, userId)
        sorted == SortTimestampDescending(st, M)
    IN IF M = {}
       THEN [userId |-> userId, totalEvents |-> 0, mostUsedDevice |-> "null",
             recentEvents |-> <<>>]
       ELSE [userId |-> userId, totalEvents |-> Cardinality(M),
             mostUsedDevice |-> st[first].device,
             recentEvents |-> Limit([k \in 1..Len(sorted) |-> RecentEvent(st[sorted[k]])], 10)]

\* a call of getUserStats that misses the cache
GetUserStats(appId, userId, first) ==
    /\ LET M == EventsOfUser(store, appId, userId) IN
       IF M = {} THEN first = 0 ELSE first \in M
    /\ lastResp' = [NoAResp EXCEPT
                      !.kind = "getUserStats", !.status = 200, !.appId = appId,
                      !.q = [NoQuery EXCEPT !.userId = userId],
                      !.body = UserStatsOf(store, appId, userId, first)]
    /\ UNCHANGED <<authVars, redisClient, listening, store, cache, reqs, acked>>

----------------------------------------------------------------------------
(* AnalyticsController.getAppAnalytics and formatAppAnalytics *)

MaxActivity == 22   \* events saved over a run of the app-analytics specification

\* new Event(eventData).save() of an event of user u1, as often as MaxActivity times
EventSaveActivity(appId, event, device, timestamp) ==
    /\ Len(store) < MaxActivity
    /\ store' = Append(store, [eventData(appId, event, "u1", Missing, device, "desktop")
                                 EXCEPT !.timestamp = timestamp])
    /\ Silent
    /\ UNCHANGED <<authVars, redisClient, listening, cache, reqs, acked>>

\* an hour count that is not reduced to the day
HourOf_sinceEpoch(timestamp) == timestamp \div HOUR

\* { $hour: '$timestamp' }: the hour of the day, 0..23
HourOf(timestamp) == (timestamp \div HOUR) % 24

RECURSIVE SortIdAscending(_)
\* { $sort: { _id: 1 } } over buckets with distinct ids
SortIdAscending(buckets) ==
    IF buckets = {} THEN <<>>
    ELSE LET low == CHOOSE b \in buckets : \A c \in buckets : b._id <= c._id
         IN <<low>> \o SortIdAscending(buckets \ {low})

\* the $project stage of the recentActivity facet
RecentActivity(ev) ==
    [event |-> ev.event, userId |-> ev.userId, timestamp |-> ev.timestamp,
     device |-> ev.device]

\* the $facet pipeline over the documents of the application in the date
\* range, formatted by formatAppAnalytics.  The events and devices facets are
\* kept as sets of buckets (the order among buckets of equal count is open)
AppAnalyticsOf(st, appId, startDate, endDate) ==
    LET M == {i \in 1..Len(st) : /\ st[i].appId = appId
                                 /\ InDateRange(st[i].timestamp, startDate, endDate)}
        count(S) == Cardinality(S)
        sorted == SortTimestampDescending(st, M)
    IN [totals |->
            IF M = {}
            THEN [totalEvents |-> 0, uniqueUsers |-> 0, uniqueSessions |-> 0,
                  pageViews |-> 0]
            ELSE [totalEvents |-> count(M),
                  uniqueUsers |-> count(AddToSet({st[i].userId : i \in M})),
                  uniqueSessions |-> count(AddToSet({st[i].sessionId : i \in M})),
                  pageViews |-> count({i \in M : st[i].event = "page_view"})],
        events |-> {[_id |-> e, count |-> count({i \in M : st[i].event = e})] :
                       e \in {st[i].event : i \in M}},
        devices |-> {[_id |-> d, count |-> count({i \in M : st[i].device = d})] :
                       d \in {st[i].device : i \in M}},
        hourlyDistribution |->
            SortIdAscending(
                {[_id |-> h, count |-> count({i \in M : HourOf(st[i].timestamp) = h})] :
                    h \in {HourOf(st[i].timestamp) : i \in M}}),
        recentActivity |->
            Limit([k \in 1..Len(sorted) |-> RecentActivity(st[sorted[k]])], 20)]

\* a call of getAppAnalytics that misses the cache
GetAppAnalytics(appId, startDate, endDate) ==
    /\ lastResp' = [NoAResp EXCEPT
                      !.kind = "getAppAnalytics", !.status = 200, !.appId = appId,
                      !.q = [NoQuery EXCEPT !.startDate = startDate, !.endDate = endDate],
                      !.body = AppAnalyticsOf(store, appId, startDate, endDate)]
    /\ UNCHANGED <<authVars, redisClient, listening, store, cache, reqs, acked>>

----------------------------------------------------------------------------
(* AnalyticsController.calculateEventTrend *)

\* a percentage is kept in hundredths: Math.round(change * 100) / 100
Percent(n) == n * 100

\* currentPeriod[0]?.count || 0
CountIn(st, appId, event, startDate, endDate) ==
    LET summary == getEventSummary(st, appId, event, startDate, endDate) IN
    IF Len(summary) > 0 THEN summary[1].count ELSE 0

\* the two windows: periodMs = currentEnd - currentStart, both shifted back by it
TrendWindows(startDate, endDate) ==
    LET period == endDate - startDate IN
    [currentStart |-> startDate, currentEnd |-> endDate,
     previousStart |-> startDate - period, previousEnd |-> endDate - period]

\* Math.round(((currentCount - previousCount) / previousCount) * 100 * 100)
RoundedChange(currentCount, previousCount) ==
    (2 * Percent(100) * (currentCount - previousCount) + previousCount)
        \div (2 * previousCount)

\* a trend that reports every window after an empty one as stable
calculateEventTrend_zeroIsStable(st, appId, event, startDate, endDate, ok) ==
    IF startDate = NoDate \/ endDate = NoDate
    THEN [change |-> 0, trend |-> "stable"]
    ELSE IF ~ok
    THEN [change |-> 0, trend |-> "unknown"]
    ELSE LET w == TrendWindows(startDate, endDate)
             currentCount == CountIn(st, appId, event, w.currentStart, w.currentEnd)
             previousCount == CountIn(st, appId, event, w.previousStart, w.previousEnd)
         IN IF previousCount = 0
            THEN [change |-> 0, trend |-> "stable"]
            ELSE [change |-> RoundedChange(currentCount, previousCount),
                  trend |-> IF currentCount > previousCount THEN "up"
                            ELSE IF currentCount < previousCount THEN "down"
                            ELSE "stable"]

\* ok = FALSE: one of the two queries rejects and the catch block answers
calculateEventTrend(st, appId, event, startDate, endDate, ok) ==
    IF startDate = NoDate \/ endDate = NoDate
    THEN [change |-> 0, trend |-> "stable"]
    ELSE IF ~ok
    THEN [change |-> 0, trend |-> "unknown"]
    ELSE LET w == TrendWindows(startDate, endDate)
             currentCount == CountIn(st, appId, event, w.currentStart, w.currentEnd)
             previousCount == CountIn(st, appId, event, w.previousStart, w.previousEnd)
         IN IF previousCount = 0
            THEN IF currentCount > 0
                 THEN [change |-> Percent(100), trend |-> "up"]
                 ELSE [change |-> 0, trend |-> "stable"]
            ELSE [change |-> RoundedChange(currentCount, previousCount),
                  trend |-> IF currentCount > previousCount THEN "up"
                            ELSE IF currentCount < previousCount THEN "down"
                            ELSE "stable"]

\* a call of calculateEventTrend; the response keeps the arguments
CalculateEventTrend(appId, event, startDate, endDate, ok) ==
    /\ lastResp' = [NoAResp EXCEPT
                      !.kind = "trend", !.status = 200, !.appId = appId,
                      !.q = [NoQuery EXCEPT !.event = event, !.startDate = startDate,
                                            !.endDate = endDate],
                      !.storeFailed = ~ok,
                      !.body = calculateEventTrend(store, appId, event,
                                                   startDate, endDate, ok)]
    /\ UNCHANGED <<authVars, redisClient, listening, store, cache, reqs, acked>>

----------------------------------------------------------------------------
(* Specifications *)

RegisteredApp(id, owner, key, salt) ==
    [id |-> id, createdBy |-> owner, apiKey |-> key, apiKeyHash |-> bcryptHash(key, salt),
     isActive |-> TRUE, expiresAt |-> YEAR]

AnalyticsApps == {"a1", "a2"}

InitAnalyticsIdle ==
    /\ redisClient = "undefined"
    /\ listening = FALSE
    /\ store = <<>>
    /\ cache = {}
    /\ reqs = [r \in Slots |-> IdleReq]
    /\ acked = {}
    /\ lastResp = NoAResp

InitAuth ==
    /\ applications = <<>>
    /\ now = 0
    /\ authResp = NoResp
    /\ InitAnalyticsIdle

NextAuth ==
    \/ \E o \in Owners, k \in Keys, s \in Salts : Register(o, k, s)
    \/ \E a \in {IdPool[i] : i \in 1..MaxApps}, o \in Owners : GetApiKey(a, o)
    \/ \E a \in {IdPool[i] : i \in 1..MaxApps}, o \in Owners : Revoke(a, o)
    \/ \E a \in {IdPool[i] : i \in 1..MaxApps}, o \in Owners, k \in Keys, s \in Salts :
          Regenerate(a, o, k, s)
    \/ \E k \in PresentedKeys : Authenticate(k)
    \/ Tick

SpecAuth == InitAuth /\ [][NextAuth]_vars

\* two applications have been registered before the analytics traffic starts
Init ==
    /\ applications = << RegisteredApp("a1", "o1", "K1", "s1"),
                         RegisteredApp("a2", "o2", "K2", "s2") >>
    /\ now = 0
    /\ authResp = NoResp
    /\ InitAnalyticsIdle

Queries ==
    [event : EventNames, userId : {"u1"}, startDate : Dates, endDate : Dates]

\* the steps of the requests in slots S, with keys K, read routes of kinds RK,
\* app_id parameters A and outcomes O of every store and cache call
Requests(S, K, RK, A, O) ==
    \/ \E r \in S, k \in K, e \in EventNames, u \in UserIds,
          s \in SessionIds, d \in Devices, c \in UaCategories :
          StartCollect(r, k, e, u, s, d, c)
    \/ \E r \in S, ok \in O : CollectSave(r, ok)
    \/ \E r \in S, ok \in O : CollectKeys(r, ok)
    \/ \E r \in S, ok \in O : CollectDel(r, ok)
    \/ \E r \in S, k \in K, kind \in RK, app_id \in A, q \in Queries :
          StartRead(r, k, kind, app_id, q)
    \/ \E r \in S, ok \in O : ReadCacheGet(r, ok)
    \/ \E r \in S, ok \in O : ReadQuery(r, ok)
    \/ \E r \in S, ok \in O : ReadCacheSet(r, ok)

\* one request at a time; every store and cache call may fail
NextSeq ==
    \/ InitializeApp
    \/ Requests({1}, AnalyticsKeys, ReadKinds, {""} \cup AnalyticsApps, BOOLEAN)
    \/ \E e \in cache : Expire(e.key)

SpecSeq == Init /\ [][NextSeq]_vars

\* concurrent collect and event-summary requests of one application;
\* every store and cache call may fail
Next ==
    \/ InitializeApp
    \/ Requests(Slots, {"K1"}, {"event-summary"}, {""}, BOOLEAN)
    \/ \E e \in cache : Expire(e.key)

\* the same requests when no store or cache call fails
NextRace ==
    \/ InitializeApp
    \/ Requests(Slots, {"K1"}, {"event-summary"}, {""}, {TRUE})
    \/ \E e \in cache : Expire(e.key)

SpecRace == Init /\ [][NextRace]_vars

Spec == Init /\ [][Next]_vars

\* summaries by event name over events of two applications and two names
CountNames == {"click", "page_view"}

NextCount ==
    \/ \E a \in AnalyticsApps, e \in CountNames : EventSave(a, e, "u1", "desktop", 0)
    \/ \E a \in AnalyticsApps, e \in CountNames : SummarizeByEvent(a, e, NoDate, NoDate)

SpecCount == Init /\ [][NextCount]_vars

\* summaries over events with and without a userId
UserChoices == {Missing, "u1", "u2"}

NextUsers ==
    \/ \E u \in UserChoices : EventSave("a1", "click", u, "desktop", 0)
    \/ SummarizeByEvent("a1", "click", NoDate, NoDate)

SpecUsers == Init /\ [][NextUsers]_vars

\* summaries over events of the three device classes

NextDevices ==
    \/ \E u \in {"u1", "u2"}, d \in DeviceClasses : EventSave("a1", "page_view", u, d, 0)
    \/ SummarizeByEvent("a1", "page_view", NoDate, NoDate)

SpecDevices == Init /\ [][NextDevices]_vars

\* trends over events of four consecutive days
TrendDays == 2..5
TrendDates == {NoDate} \cup (3..5)

NextTrend ==
    \/ \E d \in TrendDays : EventSave("a1", "click", "u1", "desktop", StartOfDay(d))
    \/ \E s \in TrendDates, e \in TrendDates, ok \in BOOLEAN :
          CalculateEventTrend("a1", "click", s, e, ok)

SpecTrend == Init /\ [][NextTrend]_vars

\* application a2 has been revoked before the analytics traffic starts
InitGate ==
    /\ applications = << RegisteredApp("a1", "o1", "K1", "s1"),
                         [RegisteredApp("a2", "o2", "K2", "s2") EXCEPT !.isActive = FALSE] >>
    /\ now = 0
    /\ authResp = NoResp
    /\ InitAnalyticsIdle

\* one analytics request at a time with any presented key, while the clock
\* runs past the expiry of a1; the credential lookup may fail, the handlers
\* do not
NextGate ==
    \/ InitializeApp
    \/ Requests({1}, PresentedKeys, {"event-summary", "user-stats"}, {""}, {TRUE})
    \/ \E kind \in GatedKinds, k \in PresentedKeys : AuthLookupFails(kind, k)
    \/ Tick

SpecGate == InitGate /\ [][NextGate]_vars

\* revocations by any owner of any id, while events are being stored
RevokeIds == AnalyticsApps \cup {"a3", MalformedId}

NextRevoke ==
    \/ \E a \in AnalyticsApps : EventSave(a, "click", "u1", "desktop", 0)
    \/ \E a \in RevokeIds, o \in Owners : Revoke(a, o)
    \/ Tick

SpecRevoke == Init /\ [][NextRevoke]_vars

\* collects with every combination of caller metadata and derived values
NextEnrich ==
    \E m \in CallerMetadata, ua \in ParsedAgents, g \in GeoResults : CollectEnriched(m, ua, g)

SpecEnrich == Init /\ [][NextEnrich]_vars

\* the real-time window read at 11:00 and at 11:30 over events stamped
\* 10:30, 10:45, 11:10 and 11:30
ClockTime(h, m) == h * HOUR + m

RealTimeStamps == {ClockTime(10, 30), ClockTime(10, 45), ClockTime(11, 10), ClockTime(11, 30)}

RealTimeReads == {ClockTime(11, 0), ClockTime(11, 30)}

NextRealTime ==
    \/ \E t \in RealTimeStamps : EventSave("a1", "click", "u1", "desktop", t)
    \/ \E t \in RealTimeReads : GetRealTimeAnalytics("a1", t)

SpecRealTime == Init /\ [][NextRealTime]_vars

\* the statistics of user u1 over events of the three device classes,
\* stamped in the order of their arrival
NextUserStats ==
    \/ \E d \in DeviceClasses : EventSave("a1", "click", "u1", d, Len(store) + 1)
    \/ \E first \in 0..MaxStored : GetUserStats("a1", "u1", first)

SpecUserStats == Init /\ [][NextUserStats]_vars

\* the statistics of user u1 of a1 over more than ten events stamped 1 or 2 in
\* any order of arrival; the first two events may be those of another user
\* or of another application
NextRecent ==
    \/ \E t \in {1, 2} : EventSaveRecent("a1", "u1", t)
    \/ Len(store) < 2 /\ EventSaveRecent("a1", "u2", 2)
    \/ Len(store) < 2 /\ EventSaveRecent("a2", "u1", 2)
    \/ \E first \in 0..MaxRecent : GetUserStats("a1", "u1", first)

SpecRecent == Init /\ [][NextRecent]_vars

\* read requests whose query strings present up to three of these parameters
\* in any order
PresentedParams ==
    { <<"event", "click">>, <<"userId", "u1">>, <<"startDate", 1>>,
      <<"endDate", 1>>, <<"endDate", 2>>, <<"app_id", "a2">> }

Presentations ==
    {p \in UNION {[1..n -> PresentedParams] : n \in 0..3} :
        \A i \in 1..Len(p), j \in 1..Len(p) : i # j => p[i][1] # p[j][1]}

NextKeys ==
    \E kind \in ReadKinds, k \in AnalyticsKeys, p \in Presentations :
        DeriveCacheKey(kind, k, p)

SpecKeys == Init /\ [][NextKeys]_vars

\* event summaries requested with key K1 for event names with and without a
\* colon, with and without an app_id parameter, between collects of such
\* events; no store or cache call fails
HitEvents == {"x", "click:x"}

HitAppIds == {"", "a1:click"}

NextHit ==
    \/ InitializeApp
    \/ \E e \in HitEvents : StartCollect(1, "K1", e, "u1", "", "", "desktop")
    \/ CollectSave(1, TRUE)
    \/ CollectKeys(1, TRUE)
    \/ CollectDel(1, TRUE)
    \/ \E e \in HitEvents, a \in HitAppIds :
          StartRead(1, "K1", "event-summary", a, [NoQuery EXCEPT !.event = e])
    \/ ReadCacheGet(1, TRUE)
    \/ ReadQuery(1, TRUE)
    \/ ReadCacheSet(1, TRUE)
    \/ \E e \in cache : Expire(e.key)

SpecHit == Init /\ [][NextHit]_vars

\* one request at a time with key K1: collects and reads of the three stat
\* kinds; every store and cache call may fail
NextMiss ==
    \/ InitializeApp
    \/ Requests({1}, {"K1"}, ReadKinds, {""}, BOOLEAN)
    \/ \E e \in cache : Expire(e.key)

SpecMiss == Init /\ [][NextMiss]_vars

\* collects of application a1 with every caller-supplied device value and
\* every category the user-agent parser may report, between event summaries;
\* no store or cache call fails
CallerDevices == {""} \cup DeviceClasses \cup {"tv"}

ParsedCategories == DeviceClasses \cup {"undefined"}

NextClass ==
    \/ InitializeApp
    \/ \E d \in CallerDevices, c \in ParsedCategories :
          StartCollect(1, "K1", "click", "u1", "", d, c)
    \/ CollectSave(1, TRUE)
    \/ CollectKeys(1, TRUE)
    \/ CollectDel(1, TRUE)
    \/ StartRead(1, "K1", "event-summary", "", [NoQuery EXCEPT !.event = "click"])
    \/ ReadCacheGet(1, TRUE)
    \/ ReadQuery(1, TRUE)
    \/ ReadCacheSet(1, TRUE)

SpecClass == Init /\ [][NextClass]_vars

\* one request at a time of either application: collects, reads of the three
\* stat kinds and of the real-time window; no store or cache call fails
NextAppend ==
    \/ InitializeApp
    \/ Requests({1}, AnalyticsKeys, ReadKinds, {""}, {TRUE})
    \/ \E a \in AnalyticsApps : GetRealTimeAnalytics(a, now)
    \/ \E e \in cache : Expire(e.key)

SpecAppend == Init /\ [][NextAppend]_vars

\* collects of application a1 with any userId and sessionId, among them the
\* id of application a2 and a glob character, between user-stats and
\* event-summary reads of application a2; no store or cache call fails
SweepUserIds == {"", "u1", "a2", "*"}

SweepSessionIds == {"", "s1"}

NextSweep ==
    \/ InitializeApp
    \/ \E u \in SweepUserIds, s \in SweepSessionIds :
          StartCollect(1, "K1", "click", u, s, "", "desktop")
    \/ CollectSave(1, TRUE)
    \/ CollectKeys(1, TRUE)
    \/ CollectDel(1, TRUE)
    \/ \E kind \in {"event-summary", "user-stats"} :
          StartRead(1, "K2", kind, "", [NoQuery EXCEPT !.event = "click", !.userId = "u1"])
    \/ ReadCacheGet(1, TRUE)
    \/ ReadQuery(1, TRUE)
    \/ ReadCacheSet(1, TRUE)

SpecSweep == Init /\ [][NextSweep]_vars

\* collects of both applications and reads of the three stat kinds that all
\* present the key K2 of application a2, with and without an app_id
\* parameter; no store or cache call fails
TenantReader == "a2"

NextTenant ==
    \/ InitializeApp
    \/ \E k \in AnalyticsKeys : StartCollect(1, k, "click", "u1", "", "", "desktop")
    \/ CollectSave(1, TRUE)
    \/ CollectKeys(1, TRUE)
    \/ CollectDel(1, TRUE)
    \/ \E kind \in ReadKinds, app_id \in {"", "a1"}, q \in Queries :
          StartRead(1, "K2", kind, app_id, q)
    \/ ReadCacheGet(1, TRUE)
    \/ ReadQuery(1, TRUE)
    \/ ReadCacheSet(1, TRUE)
    \/ \E e \in cache : Expire(e.key)

SpecTenant == Init /\ [][NextTenant]_vars

\* app analytics of a1 over more than twenty events: the first two events are
\* of either application, name and device class and fall on the first
\* minute of day 0 or the last minute of day 2; the events after them are
\* desktop clicks of a1 on day 1, one in every hour in the order of arrival
ActivityStamps == {0, EndOfDay(2)}

NextActivity ==
    \/ \E a \in AnalyticsApps, e \in CountNames, d \in {"mobile", "desktop"},
          t \in ActivityStamps :
          Len(store) < 2 /\ EventSaveActivity(a, e, d, t)
    \/ Len(store) >= 2
          /\ EventSaveActivity("a1", "click", "desktop", StartOfDay(1) + Len(store) * HOUR)
    \/ \E s \in {NoDate, 1}, e \in {NoDate, 1} : GetAppAnalytics("a1", s, e)

SpecActivity == Init /\ [][NextActivity]_vars

----------------------------------------------------------------------------
(* Credential store properties (SpecAuth) *)

AppIdx == 1..Len(applications)

Usable(i) == applications[i].isActive /\ applications[i].expiresAt >= now

\* C3: the key returned by register authenticates as the registered
\* application immediately afterwards (and as long as the record is active
\* and unexpired); once revoke has succeeded the key of the revoked
\* application authenticates as nothing.
C3_IssueThenRevoke ==
    /\ \A i \in AppIdx : Usable(i) => findByApiKey(applications[i].apiKey) = i
    /\ \A i \in AppIdx : ~applications[i].isActive
                            => findByApiKey(applications[i].apiKey) = 0
    /\ (authResp.op = "register" /\ authResp.status = 201 /\ authResp.at = now)
          => /\ findByApiKey(authResp.apiKey) # 0
             /\ applications[findByApiKey(authResp.apiKey)].id = authResp.id
    /\ (authResp.op = "revoke" /\ authResp.status = 200)
          => \A i \in AppIdx : applications[i].id = authResp.id
                => authenticateApiKey(applications[i].apiKey).status = 401

C3_Witness ==
    /\ authResp.op = "revoke" /\ authResp.status = 200
    /\ \E i \in AppIdx : applications[i].id = authResp.id /\ ~applications[i].isActive

\* C4: authenticate returns an application only when that application is
\* active, not expired and the presented key is its key; in every other case
\* the result is null (index 0), never anything else.
C4_AuthenticateOnlyUsable ==
    \A k \in PresentedKeys :
        LET i == findByApiKey(k) IN
        /\ i \in 0..Len(applications)
        /\ i # 0 => /\ applications[i].isActive
                    /\ applications[i].expiresAt >= now
                    /\ applications[i].apiKey = k
        /\ (\A j \in AppIdx : ~(Usable(j) /\ applications[j].apiKey = k)) => i = 0

C4_Witness ==
    /\ authResp.op = "authenticate" /\ authResp.status = 401 /\ authResp.at = now
    /\ \E i \in AppIdx : /\ applications[i].isActive
                         /\ applications[i].expiresAt < now
                         /\ applications[i].apiKey = authResp.presented

\* which of the four failure conditions a presented key is in
Condition(k) ==
    IF k = NoKey THEN "missing"
    ELSE IF \A i \in AppIdx : applications[i].apiKey # k THEN "invalid"
    ELSE IF \E i \in AppIdx : applications[i].apiKey = k /\ ~applications[i].isActive
         THEN "inactive"
    ELSE IF \E i \in AppIdx : applications[i].apiKey = k /\ applications[i].expiresAt < now
         THEN "expired"
    ELSE "ok"

C6_RevokedLikeNeverIssued ==
    \A i \in AppIdx :
        ~applications[i].isActive
            => authenticateApiKey(applications[i].apiKey) = authenticateApiKey(BadKey)

C6_Witness ==
    /\ authResp.op = "authenticate" /\ authResp.presented # NoKey
    /\ authResp.error = "Invalid API key"
    /\ \E i \in AppIdx : ~applications[i].isActive
                         /\ applications[i].apiKey = authResp.presented

\* C7 as stated: a response that carries a plaintext key is the response of
\* the operation that generated the key (register or regenerate).
C7_PlaintextReturnedOnce ==
    authResp.apiKey # "" => authResp.op \in {"register", "regenerate"}

----------------------------------------------------------------------------
(* Cache and ingestion properties (SpecSeq, Spec, SpecRace) *)

\* C1 as stated: when a collect of application A has answered 201 with every
\* cache call of its sweep succeeding and no other request is in flight, the
\* cache holds no event-summary, user-stats or app-analytics entry of A.
C1_NoEntryOfWriterAfterCollect ==
    (lastResp.kind = "collect" /\ lastResp.status = 201 /\ lastResp.faults = 0 /\ AllIdle)
        => \A e \in cache, kind \in ReadKinds :
              ~KeyMatches(kind \o ":" \o lastResp.appId \o ":*", e.key)

\* C2 as stated: an event-summary request that starts after a collect of the
\* same application has answered 201 reports a count that includes the
\* collected event, under every interleaving of the requests.
C2_NoStaleSummaryAfterAck ==
    (lastResp.kind = "event-summary" /\ lastResp.status = 200)
        => CountOf("event-summary", lastResp.body) >= lastResp.mustSee

\* C8: a collect whose event was stored answers 201 and the event stays in
\* the store, whichever key scans and deletes of the sweep fail.
C8_CacheOutageNeverFailsCollect ==
    /\ (lastResp.kind = "collect" /\ lastResp.eventId # 0)
          => /\ lastResp.status = 201
             /\ lastResp.eventId \in 1..Len(store)
             /\ store[lastResp.eventId].appId = lastResp.appId
    /\ \A r \in Slots :
          (reqs[r].kind = "collect" /\ reqs[r].eventId # 0)
              => /\ reqs[r].eventId \in 1..Len(store)
                 /\ store[reqs[r].eventId] = reqs[r].ev

C8_Witness ==
    lastResp.kind = "collect" /\ lastResp.status = 201 /\ lastResp.faults = 3

\* C9: a read request whose cache read and/or cache write failed answers 200
\* with the result computed from the Event Store; a read request fails only
\* when the Event Store query itself failed.
C9_CacheOutageNeverFailsRead ==
    /\ (lastResp.kind \in ReadKinds /\ lastResp.faults > 0 /\ ~lastResp.storeFailed)
          => /\ lastResp.status = 200
             /\ ~lastResp.fromCache
             /\ lastResp.body = Compute(lastResp.kind, store, lastResp.appId, lastResp.q)
    /\ (lastResp.kind \in ReadKinds /\ lastResp.status \notin {200, 401})
          => lastResp.storeFailed

C9_Witness ==
    /\ lastResp.kind = "app-analytics" /\ lastResp.status = 200 /\ lastResp.faults = 2
    /\ CountOf("app-analytics", lastResp.body) > 0

\* C10: a collect whose save failed is answered 500, the step that fails
\* leaves the Event Store and the cache as they were, and no sweep runs for
\* a request whose event was not stored.
C10_StoreFailureIsSurfaced ==
    [][ /\ (lastResp'.kind = "collect" /\ lastResp'.storeFailed)
              => /\ lastResp'.status = 500
                 /\ lastResp'.eventId = 0
                 /\ store' = store
                 /\ cache' = cache
        /\ \A r \in Slots : reqs'[r].pc \in {"keys", "del"} => ~reqs'[r].storeFailed
      ]_vars

C10_Witness ==
    lastResp.kind = "collect" /\ lastResp.storeFailed /\ lastResp.status = 500

----------------------------------------------------------------------------
(* Aggregation properties (SpecCount, SpecUsers, SpecDevices) *)

\* the stored events a summary of lastResp's application and event name covers
Summarized ==
    {i \in 1..Len(store) : /\ store[i].appId = lastResp.appId
                           /\ store[i].event = lastResp.q.event}

IsSummary == lastResp.kind = "event-summary" /\ lastResp.status = 200

\* C11: an event summary over an unbounded date range reports count equal
\* to the number of stored events with that name owned by that application;
\* events of other names or of other applications never contribute.
C11_CountIsStoredEvents ==
    (IsSummary /\ lastResp.q.startDate = NoDate /\ lastResp.q.endDate = NoDate)
        => lastResp.body.count = Cardinality(Summarized)

C11_Witness ==
    /\ IsSummary
    /\ lastResp.body.count = 2
    /\ \E i \in 1..Len(store) : store[i].appId # lastResp.appId
    /\ \E i \in 1..Len(store) : /\ store[i].appId = lastResp.appId
                                 /\ store[i].event # lastResp.q.event

\* C12: uniqueUsers is the number of distinct user ids among the matching
\* events that carry one; events without a userId never add to it (3 events
\* without userId and 2 of "u1" give 1, only events without userId give 0).
C12_UniqueUsersSkipsMissing ==
    IsSummary =>
        LET withId(u) == {i \in Summarized : store[i].userId = u}
            without == {i \in Summarized : store[i].userId = Missing}
        IN /\ lastResp.body.uniqueUsers =
                  Cardinality({u \in UserChoices \ {Missing} : withId(u) # {}})
           /\ (Cardinality(without) = 3 /\ Cardinality(withId("u1")) = 2
                  /\ Cardinality(Summarized) = 5) => lastResp.body.uniqueUsers = 1
           /\ without = Summarized => lastResp.body.uniqueUsers = 0

C12_Witness ==
    /\ IsSummary
    /\ Cardinality({i \in Summarized : store[i].userId = Missing}) = 3
    /\ Cardinality({i \in Summarized : store[i].userId = "u1"}) = 2
    /\ lastResp.body.uniqueUsers = 1

\* C13: the device breakdown reports for mobile, desktop and tablet the
\* number of matching events stored with that class (0 when none) and the
\* three numbers sum to count; 5 page_view events, 3 desktop and 2 mobile,
\* of 2 users give count 5, uniqueUsers 2, desktop 3, mobile 2, tablet 0.
C13_DeviceBreakdown ==
    IsSummary =>
        LET of(d) == Cardinality({i \in Summarized : store[i].device = d})
            dd == lastResp.body.deviceData
        IN /\ dd.mobile = of("mobile")
           /\ dd.desktop = of("desktop")
           /\ dd.tablet = of("tablet")
           /\ dd.mobile + dd.desktop + dd.tablet = lastResp.body.count

C13_Witness ==
    /\ IsSummary
    /\ lastResp.q.event = "page_view"
    /\ lastResp.body.count = 5
    /\ lastResp.body.uniqueUsers = 2
    /\ lastResp.body.deviceData = [mobile |-> 2, desktop |-> 3, tablet |-> 0]

\* the events of lastResp's application and event name between two dates
StoredBetween(startDate, endDate) ==
    {i \in Summarized : /\ store[i].timestamp >= StartOfDay(startDate)
                        /\ store[i].timestamp <= EndOfDay(endDate)}

\* C14: the trend is {change: 0, trend: 'stable'} whenever the previous-period
\* count and the current-period count are both 0, and {change: 100, trend:
\* 'up'} whenever the previous-period count is 0 and the current-period count
\* is positive; a zero previous count is never used as a divisor.
C14_TrendOverEmptyPreviousPeriod ==
    (/\ lastResp.kind = "trend"
     /\ ~lastResp.storeFailed
     /\ lastResp.q.startDate # NoDate
     /\ lastResp.q.endDate # NoDate)
        => LET w == TrendWindows(lastResp.q.startDate, lastResp.q.endDate)
               current == Cardinality(StoredBetween(w.currentStart, w.currentEnd))
               previous == Cardinality(StoredBetween(w.previousStart, w.previousEnd))
           IN /\ (previous = 0 /\ current = 0)
                    => lastResp.body = [change |-> 0, trend |-> "stable"]
              /\ (previous = 0 /\ current > 0)
                    => lastResp.body = [change |-> Percent(100), trend |-> "up"]

C14_Witness ==
    /\ lastResp.kind = "trend"
    /\ ~lastResp.storeFailed
    /\ lastResp.q.startDate = 4
    /\ lastResp.q.endDate = 5
    /\ StoredBetween(3, 4) = {}
    /\ Cardinality(StoredBetween(5, 5)) = 2
    /\ lastResp.body = [change |-> Percent(100), trend |-> "up"]

----------------------------------------------------------------------------
(* The gate of the analytics routes (SpecGate) *)

\* the key belongs to an active, unexpired application
KeyUsable(k) == \E i \in AppIdx : Usable(i) /\ verifyApiKey(applications[i], k)

\* a step in which a request presenting k enters an analytics route and its
\* credential lookup, if one is made, completes
RequestEnters(k) ==
    \/ \E r \in Slots, e \in EventNames, u \in UserIds, s \in SessionIds,
          d \in Devices, c \in UaCategories : StartCollect(r, k, e, u, s, d, c)
    \/ \E r \in Slots, kind \in ReadKinds, a \in {""} \cup AnalyticsApps, q \in Queries :
          StartRead(r, k, kind, a, q)

\* a step in which the credential lookup of a request presenting k fails
LookupFailsFor(k) == \E kind \in GatedKinds : AuthLookupFails(kind, k)

NothingStarted == UNCHANGED <<store, cache, reqs, acked>>

\* C15: every request to an authenticated analytics route that presents no
\* key, or a key that matches no active unexpired application, is answered
\* 401, never reaches the handler, stores no event and changes no cache entry.
C15_UnusableKeyAnswered401 ==
    [][\A k \in PresentedKeys :
          (~KeyUsable(k) /\ (RequestEnters(k) \/ LookupFailsFor(k)))
              => (lastResp'.status = 401 /\ NothingStarted)]_vars

\* C15 as the code has it: such a request is answered 401 when the credential
\* lookup completes (or is not needed because no key was presented) and 500
\* 'Authentication failed' when the lookup itself fails; in both cases it never
\* reaches the handler, stores no event and changes no cache entry.
C15_UnusableKeyStopsAtGate ==
    [][\A k \in PresentedKeys :
          ~KeyUsable(k) =>
              /\ RequestEnters(k) => (lastResp'.status = 401 /\ NothingStarted)
              /\ LookupFailsFor(k) =>
                    /\ k # NoKey
                    /\ lastResp'.status = 500
                    /\ lastResp'.error = "Authentication failed"
                    /\ NothingStarted]_vars

C15_Witness ==
    /\ lastResp.kind = "collect"
    /\ lastResp.status = 401
    /\ lastResp.error = "Invalid API key"
    /\ Len(store) > 0
    /\ cache # {}
    /\ \E i \in AppIdx : ~applications[i].isActive
    /\ \E i \in AppIdx : applications[i].isActive /\ isExpired(applications[i])

----------------------------------------------------------------------------
(* Revocation and regeneration (SpecRevoke, SpecAuth) *)

\* C16: revoke(appId, ownerId) sets the active flag of the application with
\* that id and owner to false and changes or deletes nothing else (the record
\* and its events remain); when no application has that id together with that
\* owner it fails with NotFound (404) and leaves every record unchanged.
C16_RevokeFlipsFlagOrNotFound ==
    [][\A a \in RevokeIds, o \in Owners :
          Revoke(a, o) =>
              LET i == AppIndex(a, o, FALSE) IN
              /\ store' = store
              /\ IF i # 0
                 THEN /\ authResp'.status = 200
                      /\ applications' = [applications EXCEPT ![i].isActive = FALSE]
                 ELSE /\ authResp'.status = 404
                      /\ applications' = applications]_vars

\* C17: after regenerate(appId, ownerId) succeeds, the same record (same id)
\* carries a new key and hash: the new plaintext key authenticates as that
\* application, the previous key no longer authenticates as any application,
\* and the expiry is one year after the regeneration.  (The generator is
\* taken to return a value other than the key it replaces.)
C17_RegenerateReplacesKey ==
    [][\A a \in {IdPool[n] : n \in 1..MaxApps}, o \in Owners, k \in Keys, s \in Salts :
          (Regenerate(a, o, k, s) /\ authResp'.status = 200)
              => LET i == AppIndex(a, o, FALSE)
                     old == applications[i] IN
                 /\ Len(applications') = Len(applications)
                 /\ applications'[i].id = a
                 /\ applications'[i].createdBy = o
                 /\ applications'[i].apiKey = k
                 /\ authResp'.apiKey = k
                 /\ applications'[i].expiresAt = now + YEAR
                 /\ (findByApiKey(k))' = i
                 /\ \A previous \in Keys :
                       (previous = old.apiKey /\ previous # k) =>
                           /\ applications'[i].apiKeyHash # old.apiKeyHash
                           /\ (findByApiKey(previous))' = 0]_vars

C17_Witness ==
    /\ authResp.op = "regenerate"
    /\ authResp.status = 200
    /\ authResp.at > 0
    /\ \E i \in AppIdx :
          /\ applications[i].id = authResp.id
          /\ applications[i].apiKey = authResp.apiKey
          /\ applications[i].expiresAt = authResp.at + YEAR
          /\ findByApiKey(authResp.apiKey) = i
          /\ \E k \in Keys : k # authResp.apiKey /\ findByApiKey(k) = 0

----------------------------------------------------------------------------
(* Enrichment (SpecEnrich) *)

\* C18: enrichment never overwrites caller-supplied metadata: for each
\* metadata field the caller supplied, the stored event keeps the caller's
\* value; a parser-derived browser or OS value is stored only when the caller
\* omitted that field.
C18_CallerMetadataPreserved ==
    (lastResp.kind = "collect" /\ lastResp.status = 201 /\ lastResp.eventId > 0)
        => LET stored == store[lastResp.eventId].metadata
               caller == lastResp.body.metadata
           IN \A f \in DOMAIN caller :
                 caller[f] # Missing => stored[f] = caller[f]

----------------------------------------------------------------------------
(* Real-time window and user statistics (SpecRealTime, SpecUserStats) *)

\* the instants of the trailing hour that the bucket of minute m covers
CoveredBy(m) ==
    {store[i].timestamp : i \in
        {j \in 1..Len(store) : /\ store[j].appId = lastResp.appId
                               /\ store[j].timestamp >= lastResp.body.startTime
                               /\ store[j].timestamp <= lastResp.body.endTime
                               /\ MinuteOf(store[j].timestamp) = m}}

\* C19: the real-time window returns its per-minute buckets oldest to newest:
\* of any two returned buckets the one listed first covers an earlier
\* wall-clock minute of the trailing hour, also when the trailing hour spans
\* a clock-hour boundary (10:30 to 11:30).
C19_BucketsChronological ==
    lastResp.kind = "real-time" =>
        LET data == lastResp.body.data IN
        \A i \in 1..Len(data), j \in 1..Len(data) :
            i < j => \A t1 \in CoveredBy(data[i].minute), t2 \in CoveredBy(data[j].minute) :
                        t1 < t2

\* C20: the most-frequent device of a user's statistics is a device class
\* with the maximum number of that user's events in that application (under
\* a tie, any of the classes that share the maximum).
C20_MostUsedDeviceIsMostFrequent ==
    (lastResp.kind = "getUserStats" /\ lastResp.body.totalEvents > 0)
        => LET M == EventsOfUser(store, lastResp.appId, lastResp.q.userId)
               of(d) == Cardinality({i \in M : store[i].device = d})
           IN \A d \in DeviceClasses : of(d) <= of(lastResp.body.mostUsedDevice)

----------------------------------------------------------------------------
(* Recent events of a user (SpecRecent) *)

\* C21: recentEvents of a user's statistics holds min(10, totalEvents)
\* entries, the k-th entry carries the k-th latest timestamp among the
\* user's events in that application (so the entries are the latest events,
\* newest first), each entry is one of those events, and totalEvents is the
\* number of stored events of that user in that application.
C21_RecentEventsNewestFirst ==
    lastResp.kind = "getUserStats" =>
        LET M == EventsOfUser(store, lastResp.appId, lastResp.q.userId)
            total == Cardinality(M)
            recent == lastResp.body.recentEvents
        IN /\ lastResp.body.totalEvents = total
           /\ Len(recent) = IF total < 10 THEN total ELSE 10
           /\ \A k \in 1..Len(recent) :
                 /\ \E i \in M : recent[k] = RecentEvent(store[i])
                 /\ Cardinality({i \in M : store[i].timestamp > recent[k].timestamp}) < k
                 /\ Cardinality({i \in M : store[i].timestamp >= recent[k].timestamp}) >= k

C21_Witness ==
    /\ lastResp.kind = "getUserStats"
    /\ lastResp.body.totalEvents = 11
    /\ Len(lastResp.body.recentEvents) = 10
    /\ lastResp.body.recentEvents[1].timestamp = 2
    /\ lastResp.body.recentEvents[10].timestamp = 1
    /\ store[1].timestamp = 1
    /\ store[11].timestamp = 2

----------------------------------------------------------------------------
(* Cache key derivation (SpecKeys) *)

\* the value a query string presents for a parameter name
PresentedValue(presented, name) ==
    LET S == {n \in 1..Len(presented) : presented[n][1] = name} IN
    IF S = {} THEN NoParams[name] ELSE presented[CHOOSE n \in S : TRUE][2]

\* the query parameters that enter the key of a stat kind
KeyParams(kind) ==
    IF kind = "event-summary" THEN {"event", "startDate", "endDate"}
    ELSE IF kind = "user-stats" THEN {"userId"} ELSE {"startDate", "endDate"}

----------------------------------------------------------------------------
(* Cache hits (SpecHit) *)

\* C23 as stated: the value a cache hit returns is a value that a cache miss
\* for the same application, stat kind and query parameters has stored, that
\* is, the result of that very query over the events stored up to some
\* earlier moment; a value stored for a different application or a
\* different query is never returned.
C23_HitReturnsValueOfSameQuery ==
    (lastResp.kind \in ReadKinds /\ lastResp.status = 200 /\ lastResp.fromCache)
        => \E n \in 0..Len(store) :
              lastResp.body = Compute(lastResp.kind, SubSeq(store, 1, n),
                                      lastResp.appId, lastResp.q)

----------------------------------------------------------------------------
(* Cache misses (SpecMiss) *)

\* C24: the cache write of a miss stores the computed result under the key of
\* the query with the expiry of its stat kind (300 s for event summaries,
\* 120 s for user stats, 600 s for app-wide analytics) and the same result
\* is returned; a cache entry is written by no other step, so every entry
\* carries one of these expiries.
C24_MissWritesWithKindExpiry ==
    [][ /\ \A r \in Slots :
              ReadCacheSet(r, TRUE) =>
                  /\ \E n \in 0..Len(store) :
                        reqs[r].body = Compute(reqs[r].kind, SubSeq(store, 1, n),
                                               reqs[r].appId, reqs[r].q)
                  /\ \E e \in cache' :
                        /\ e.key = cacheKey(reqs[r].kind, reqs[r].appId, reqs[r].q)
                        /\ e.val = JSONstringify(reqs[r].body)
                        /\ e.ttl = IF reqs[r].kind = "event-summary" THEN 300
                                   ELSE IF reqs[r].kind = "user-stats" THEN 120 ELSE 600
                  /\ lastResp'.status = 200
                  /\ lastResp'.body = reqs[r].body
        /\ \A e \in cache' \ cache :
              /\ e.ttl \in {300, 120, 600}
              /\ \E r \in Slots : reqs[r].pc = "set" /\ e.key = reqs[r].key
      ]_vars

C24_Witness ==
    /\ \E e \in cache : e.ttl = 300 /\ JSONparse(e.val).count > 0
    /\ \E e \in cache : e.ttl = 120 /\ e.key = "user-stats:a1:u1"
    /\ \E e \in cache : e.ttl = 600 /\ e.key = "app-analytics:a1::"
    /\ lastResp.kind \in ReadKinds /\ lastResp.status = 200 /\ ~lastResp.fromCache

----------------------------------------------------------------------------
(* Trend periods (SpecTrend) *)

\* C25 as stated: when both dates are given, the previous period of the
\* trend covers as many days as the current one, ends before the current one
\* begins and shares no instant with it, so no stored event is counted in
\* both the current and the previous count (also when startDate = endDate).
C25_PreviousPeriodIsDisjoint ==
    (/\ lastResp.kind = "trend"
     /\ ~lastResp.storeFailed
     /\ lastResp.q.startDate # NoDate
     /\ lastResp.q.endDate # NoDate
     /\ lastResp.q.startDate <= lastResp.q.endDate)
        => LET w == TrendWindows(lastResp.q.startDate, lastResp.q.endDate) IN
           /\ w.previousEnd - w.previousStart = w.currentEnd - w.currentStart
           /\ EndOfDay(w.previousEnd) < StartOfDay(w.currentStart)
           /\ StoredBetween(w.currentStart, w.currentEnd)
                  \cap StoredBetween(w.previousStart, w.previousEnd) = {}

----------------------------------------------------------------------------
(* Device class of a collected event (SpecClass) *)

\* C26: the device class of the event a collect stores is the class the
\* caller supplied whenever the caller supplied one; otherwise it is mobile
\* or tablet when the user-agent parser reports that category and desktop
\* in every other case; the event is stored as it was built and every
\* stored class is one of mobile, desktop, tablet.
C26_DeviceClassOfStoredEvent ==
    [][ /\ \A d \in CallerDevices, c \in ParsedCategories :
              (StartCollect(1, "K1", "click", "u1", "", d, c) /\ reqs'[1].pc = "save")
                  => reqs'[1].ev.device =
                        IF d # "" THEN d
                        ELSE IF c \in {"mobile", "tablet"} THEN c ELSE "desktop"
        /\ \A r \in Slots : CollectSave(r, TRUE) => store' = Append(store, reqs[r].ev)
        /\ \A i \in 1..Len(store') : store'[i].device \in DeviceClasses
      ]_vars

C26_Witness ==
    /\ lastResp.kind = "collect" /\ lastResp.status = 201
    /\ Len(store) = 2
    /\ store[1].device = "tablet"
    /\ store[2].device = "mobile"

----------------------------------------------------------------------------
(* The Event Store is append-only (SpecAppend) *)

\* C27: every step leaves the stored events as they are or appends one
\* event; the appended event is the one a collect built, owned by the
\* application its key authenticated as; a collect appends once and its 201
\* names that event; the steps of event-summary, user-stats, app-analytics
\* and real-time requests leave the Event Store unchanged.
C27_EventsAppendOnly ==
    [][ /\ \A i \in 1..Len(store) : i <= Len(store') /\ store'[i] = store[i]
        /\ \/ store' = store
           \/ \E r \in Slots :
                 /\ reqs[r].kind = "collect" /\ reqs[r].pc = "save"
                 /\ store' = Append(store, reqs[r].ev)
                 /\ reqs[r].ev.appId = reqs[r].appId
        /\ \A r \in Slots, k \in AnalyticsKeys :
              ((\E e \in EventNames, u \in UserIds, s \in SessionIds,
                   d \in Devices, c \in UaCategories : StartCollect(r, k, e, u, s, d, c))
                  /\ reqs'[r].pc = "save")
                  => reqs'[r].ev.appId = applications[findByApiKey(k)].id
        /\ \A r \in Slots :
              reqs[r].pc \in {"keys", "del"} => reqs'[r].pc \in {"keys", "del", "idle"}
        /\ (lastResp'.kind = "collect" /\ lastResp'.status = 201)
              => /\ lastResp'.eventId \in 1..Len(store')
                 /\ store'[lastResp'.eventId].appId = lastResp'.appId
        /\ \A r \in Slots : reqs[r].kind \in ReadKinds => store' = store
        /\ lastResp'.kind \in ReadKinds \cup {"real-time"} => store' = store
      ]_vars

C27_Witness ==
    /\ lastResp.kind = "real-time"
    /\ Len(store) = 2
    /\ store[1].appId # store[2].appId
    /\ acked = {1, 2}
    /\ cache # {}

----------------------------------------------------------------------------
(* The invalidation sweep (SpecSweep) *)

\* the key carries the id of the application: it is "<kind>:<appId>:..."
CarriesAppId(key, appId) ==
    \E kind \in ReadKinds : KeyMatches(kind \o ":" \o appId \o ":*", key)

\* C28 as stated: the sweep of a collect by application A removes only cache
\* entries whose key carries A's application id, for every userId and
\* sessionId of the collected event (both absent included); the entries of
\* every other application are left unchanged.
C28_SweepRemovesOnlyOwnEntries ==
    [][\A r \in Slots :
          reqs[r].kind = "collect"
              => \A e \in cache \ cache' : CarriesAppId(e.key, reqs[r].appId)]_vars

----------------------------------------------------------------------------
(* Tenant isolation of the read paths (SpecTenant) *)

\* the stored events of one application
EventsOwnedBy(appId) == SelectSeq(store, LAMBDA ev : ev.appId = appId)

\* C29 as stated: every read request of SpecTenant is authenticated with the
\* key of application a2; whatever its parameters are, its answer is the
\* result of the query over a2's own events (as they were at the time of the
\* request or of an earlier one), never one that depends on the events or
\* on the cache entries of application a1.
C29_ReadsOnlyOwnApplication ==
    (lastResp.kind \in ReadKinds /\ lastResp.status = 200)
        => LET own == EventsOwnedBy(TenantReader) IN
           \E n \in 0..Len(own) :
               lastResp.body = Compute(lastResp.kind, SubSeq(own, 1, n),
                                       TenantReader, lastResp.q)

----------------------------------------------------------------------------
(* App analytics (SpecActivity) *)

RECURSIVE SumOfCounts(_)
\* the sum of the counts of a set of buckets
SumOfCounts(buckets) ==
    IF buckets = {} THEN 0
    ELSE LET b == CHOOSE x \in buckets : TRUE IN b.count + SumOfCounts(buckets \ {b})

\* the stored events an app-analytics answer covers
Analyzed ==
    {i \in 1..Len(store) :
        /\ store[i].appId = lastResp.appId
        /\ lastResp.q.startDate # NoDate
              => store[i].timestamp >= StartOfDay(lastResp.q.startDate)
        /\ lastResp.q.endDate # NoDate
              => store[i].timestamp <= EndOfDay(lastResp.q.endDate)}

\* C30: in an app-analytics result totals.totalEvents is the number of
\* matched events and equals the sum of the per-event counts, of the
\* per-device counts and of the hourly counts; every hourly bucket id lies
\* in 0..23; recentActivity holds min(20, totalEvents) of the matched events,
\* the k-th of them carrying the k-th latest timestamp (newest first); with
\* no matching event all totals are 0.
C30_BreakdownsPartitionMatchedEvents ==
    lastResp.kind = "getAppAnalytics" =>
        LET b == lastResp.body
            total == b.totals.totalEvents
            hourly == {b.hourlyDistribution[k] : k \in 1..Len(b.hourlyDistribution)}
        IN /\ total = Cardinality(Analyzed)
           /\ SumOfCounts(b.events) = total
           /\ SumOfCounts(b.devices) = total
           /\ Cardinality(hourly) = Len(b.hourlyDistribution)
           /\ SumOfCounts(hourly) = total
           /\ \A h \in hourly : h._id \in 0..23
           /\ Len(b.recentActivity) = IF total < 20 THEN total ELSE 20
           /\ \A k \in 1..Len(b.recentActivity) :
                 LET t == b.recentActivity[k].timestamp IN
                 /\ \E i \in Analyzed : b.recentActivity[k] = RecentActivity(store[i])
                 /\ Cardinality({i \in Analyzed : store[i].timestamp > t}) < k
                 /\ Cardinality({i \in Analyzed : store[i].timestamp >= t}) >= k
           /\ Analyzed = {} =>
                 b.totals = [totalEvents |-> 0, uniqueUsers |-> 0, uniqueSessions |-> 0,
                             pageViews |-> 0]

C30_Witness ==
    /\ lastResp.kind = "getAppAnalytics"
    /\ lastResp.body.totals.totalEvents = 21
    /\ Len(lastResp.body.recentActivity) = 20
    /\ Cardinality(lastResp.body.events) = 2
    /\ Cardinality(lastResp.body.devices) = 2
    /\ Len(lastResp.body.hourlyDistribution) > 20
    /\ lastResp.body.recentActivity[1].timestamp = EndOfDay(2)
    /\ \E i \in 1..Len(store) : store[i].appId # lastResp.appId

====
